---- MODULE Spec2Model ----
(***************************************************************************)
(* Model of dataset_generation.py: the synthetic renovation-cost dataset   *)
(* generator (row generator generate_row and the module-level assembler).  *)
(*                                                                         *)
(* Number representation.  The program computes with Python floats.  The   *)
(* model keeps every float on a fixed-point grid and rounds each float     *)
(* operation to the nearest grid point (ties to even), as IEEE-754 does:   *)
(*   money, per-sq.ft rates, productivities : 1/Hundredths (paise)         *)
(*   fractions, multipliers, day counts     : 1/FracScale                  *)
(*   the area draw                          : 1/AreaUnit sq.ft             *)
(*   total_psf                              : 1/(Hundredths*Hundredths)    *)
(* random.random() returns k/2^53 in CPython; here it returns k/RngMod.    *)
(* AreaUnit keeps the relation that holds for doubles in rand_range(70,    *)
(* 550): the spacing of representable values just below 550 (2^-43) is     *)
(* larger than twice the spacing of the draws 480*2^-53, so the largest    *)
(* draw rounds to 550.0 (in CPython 70 + 480*(1 - 2^-53) == 550.0).        *)
(***************************************************************************)
EXTENDS Integers, Sequences, FiniteSets, TLC

\* ---------------------------------------------------------------- bounds
\* number of distinct outputs of random(): k/RngMod, k in 0..RngMod-1
RngMod == 4096
\* largest seed given to random.seed
MaxSeed == 4095
\* largest configured N_ROWS
MaxRows == 3
\* grid of the area draw: quarter square feet
AreaUnit == 4

\* ------------------------------------------------------ fixed-point grid
Hundredths == 100
FracScale == 10000

\* Python round(): nearest multiple of d, ties to the even quotient
RoundHalfEven(n, d) ==
    LET q == n \div d
        r == n % d
    IN  IF 2 * r < d THEN q
        ELSE IF 2 * r > d THEN q + 1
        ELSE IF q % 2 = 0 THEN q ELSE q + 1

\* x * y / d rounded to nearest, without forming x * y
MulDiv(x, y, d) == (x \div d) * y + RoundHalfEven((x % d) * y, d)

\* float product of a value and a fraction (fraction on the FracScale grid)
FMul(x, f) == MulDiv(x, f, FracScale)

\* the decimal literal n/d as a fraction on the FracScale grid
Dec(n, d) == (n * FracScale) \div d

\* a whole number of rupees / sq.ft as a value on the Hundredths grid
Rs(n) == n * Hundredths

\* Python max() and int()
Max(a, b) == IF a >= b THEN a ELSE b
IntTrunc(x, unit) == IF x >= 0 THEN x \div unit ELSE -((-x) \div unit)

\* ------------------------------------------------------------ parameters
AS_OF_DATE == "2025-09-07"
GST_RATE == Dec(18, 100)
MATERIAL_PRICE_INDEX == Dec(100, 100)
StaticPaintingPsf == <<18, 35>>
StaticQualityWeights == <<25, 45, 22, 8>>

\* ----------------------------------------------------------- master data
city_names == << "Delhi", "Mumbai", "Bangalore", "Hyderabad", "Chennai",
                 "Kolkata", "Pune", "Ahmedabad", "Lucknow", "Jaipur",
                 "Indore", "Surat", "Nagpur", "Vadodara", "Coimbatore",
                 "Bhopal", "Chandigarh", "Patna", "Ranchi", "Guwahati",
                 "Kanpur", "Varanasi", "Mysuru" >>

CityInfo(t, mult, lo, hi) ==
    [tier |-> t, multiplier |-> Dec(mult, 100), labor_day_rate |-> <<lo, hi>>]

cities ==
    [c \in {city_names[i] : i \in 1..Len(city_names)} |->
       CASE c = "Delhi"      -> CityInfo("Metro", 120, 750, 900)
         [] c = "Mumbai"     -> CityInfo("Metro", 130, 800, 950)
         [] c = "Bangalore"  -> CityInfo("Metro", 125, 750, 900)
         [] c = "Hyderabad"  -> CityInfo("Metro", 115, 700, 850)
         [] c = "Chennai"    -> CityInfo("Metro", 110, 650, 800)
         [] c = "Kolkata"    -> CityInfo("Metro", 100, 600, 750)
         [] c = "Pune"       -> CityInfo("Metro", 120, 700, 850)
         [] c = "Ahmedabad"  -> CityInfo("Metro", 105, 600, 750)
         [] c = "Lucknow"    -> CityInfo("Tier-2", 92, 500, 650)
         [] c = "Jaipur"     -> CityInfo("Tier-2", 95, 550, 700)
         [] c = "Indore"     -> CityInfo("Tier-2", 96, 550, 700)
         [] c = "Surat"      -> CityInfo("Tier-2", 100, 550, 700)
         [] c = "Nagpur"     -> CityInfo("Tier-2", 95, 520, 680)
         [] c = "Vadodara"   -> CityInfo("Tier-2", 98, 550, 700)
         [] c = "Coimbatore" -> CityInfo("Tier-2", 95, 520, 660)
         [] c = "Bhopal"     -> CityInfo("Tier-2", 93, 500, 640)
         [] c = "Chandigarh" -> CityInfo("Tier-2", 102, 600, 750)
         [] c = "Patna"      -> CityInfo("Tier-3", 88, 450, 600)
         [] c = "Ranchi"     -> CityInfo("Tier-3", 90, 480, 620)
         [] c = "Guwahati"   -> CityInfo("Tier-3", 92, 500, 640)
         [] c = "Kanpur"     -> CityInfo("Tier-3", 90, 480, 620)
         [] c = "Varanasi"   -> CityInfo("Tier-3", 90, 480, 620)
         [] c = "Mysuru"     -> CityInfo("Tier-3", 94, 520, 660)]

room_types == << "Bedroom", "Living Room", "Kitchen", "Bathroom", "Dining",
                 "Study", "Kids Room" >>

renovation_level_names == << "Basic", "Mid", "Luxury" >>

\* labor_overhead ranges, as fractions on the FracScale grid
renovation_levels ==
    [l \in {"Basic", "Mid", "Luxury"} |->
       CASE l = "Basic"  -> <<Dec(10, 100), Dec(15, 100)>>
         [] l = "Mid"    -> <<Dec(15, 100), Dec(25, 100)>>
         [] l = "Luxury" -> <<Dec(25, 100), Dec(35, 100)>>]

quality_tier_names == << "Economy", "Standard", "Premium", "Luxury" >>

quality_tiers ==
    [q \in {"Economy", "Standard", "Premium", "Luxury"} |->
       CASE q = "Economy"  -> Dec(90, 100)
         [] q = "Standard" -> Dec(100, 100)
         [] q = "Premium"  -> Dec(120, 100)
         [] q = "Luxury"   -> Dec(140, 100)]

flooring_names == << "Vitrified_Tile", "Ceramic_Tile", "Wood_Laminate",
                     "Engineered_Wood", "Marble", "Granite", "Epoxy" >>

flooring_catalog ==
    [f \in {flooring_names[i] : i \in 1..Len(flooring_names)} |->
       CASE f = "Vitrified_Tile"  -> <<90, 200>>
         [] f = "Ceramic_Tile"    -> <<80, 160>>
         [] f = "Wood_Laminate"   -> <<140, 260>>
         [] f = "Engineered_Wood" -> <<220, 380>>
         [] f = "Marble"          -> <<350, 900>>
         [] f = "Granite"         -> <<220, 450>>
         [] f = "Epoxy"           -> <<60, 160>>]

ceiling_names == << "POP", "Gypsum", "Grid" >>

ceiling_catalog ==
    [c \in {"POP", "Gypsum", "Grid"} |->
       CASE c = "POP"    -> <<90, 160>>
         [] c = "Gypsum" -> <<120, 220>>
         [] c = "Grid"   -> <<100, 180>>]

electrical_psf == <<70, 160>>
plumbing_per_bath == <<40000, 95000>>
plumbing_per_kitchen == <<25000, 60000>>

kitchen_packages ==
    [p \in {"Basic_L", "Standard_L", "Premium_U", "Luxury_Island"} |->
       CASE p = "Basic_L"       -> <<120000, 250000>>
         [] p = "Standard_L"    -> <<180000, 350000>>
         [] p = "Premium_U"     -> <<300000, 600000>>
         [] p = "Luxury_Island" -> <<500000, 1200000>>]

bathroom_packages ==
    [p \in {"Basic", "Standard", "Premium"} |->
       CASE p = "Basic"    -> <<70000, 130000>>
         [] p = "Standard" -> <<120000, 220000>>
         [] p = "Premium"  -> <<200000, 400000>>]

furniture_room ==
    [f \in {"None", "Basic", "Standard", "Premium"} |->
       CASE f = "None"     -> <<0, 0>>
         [] f = "Basic"    -> <<30000, 80000>>
         [] f = "Standard" -> <<80000, 180000>>
         [] f = "Premium"  -> <<180000, 500000>>]

productivity ==
    [c \in {"painting", "flooring", "ceiling", "electrical"} |->
       CASE c = "painting"   -> <<180, 280>>
         [] c = "flooring"   -> <<90, 160>>
         [] c = "ceiling"    -> <<120, 180>>
         [] c = "electrical" -> <<150, 240>>]


\* ------------------------------------------------------------------ state
VARIABLES
    seed,            \* argument of random.seed
    N_ROWS,          \* configured number of rows
    INCLUDE_GST,     \* tax inclusion flag
    painting_psf,    \* painting base range (rupees per sq.ft)
    quality_weights, \* weights used by choose_quality (percent)
    today,           \* the calendar day of the run
    rng,             \* state of the shared generator of module random
    rows,            \* the list built by the comprehension over range
    frame,           \* local variables of the last generate_row call
    draws,           \* labels of the draws consumed by the last call, in order
    pc,              \* "gen", "done" (CSV written) or "raised"
    csv,             \* the records handed to df.to_csv
    run,             \* 1 for the first execution of the script, 2 for the second
    first_csv        \* the records written by the first execution

vars == << seed, N_ROWS, INCLUDE_GST, painting_psf, quality_weights, today,
           rng, rows, frame, draws, pc, csv, run, first_csv >>

config == << seed, N_ROWS, INCLUDE_GST, painting_psf, quality_weights >>

\* ------------------------------------------------- the shared generator
\* one step of the generator (a linear congruential stand-in for the
\* Mersenne Twister: a deterministic function of the generator state)
RngNext(s) == (s * 1229 + 1) % RngMod

\* random.seed(n): the state is a function of the seed alone
SeedRng(n) == n % RngMod

\* one call of random.random(): g is [s: generator state, log: draws so far];
\* the result is k / RngMod
Draw(g, label) ==
    [k |-> g.s, g |-> [s |-> RngNext(g.s), log |-> Append(g.log, label)]]

\* random.uniform(a, b) = a + (b - a) * random(), a and b on one grid
rand_range(a, b, g, label) ==
    LET d == Draw(g, label)
    IN  [v |-> a + MulDiv(b - a, d.k, RngMod), g |-> d.g]

\* random.choice(seq)
choice(seq, g, label) ==
    LET d == Draw(g, label)
    IN  [v |-> seq[((d.k * Len(seq)) \div RngMod) + 1], g |-> d.g]

RECURSIVE CumWeight(_, _)
CumWeight(w, i) == IF i = 0 THEN 0 ELSE w[i] + CumWeight(w, i - 1)

WeightsTotal(w) == CumWeight(w, Len(w))

\* random.choices(population, weights, k=1)[0]:
\* population[bisect(cum_weights, random() * total, 0, n - 1)]
choices(population, w, g, label) ==
    LET d == Draw(g, label)
        n == Len(population)
        above == {i \in 1..(n - 1) :
                    CumWeight(w, i) * RngMod > d.k * WeightsTotal(w)}
        idx == IF above = {} THEN n
               ELSE CHOOSE i \in above : \A j \in above : i <= j
    IN  [v |-> population[idx], g |-> d.g]

\* random.random() < p / 100
Bernoulli(p, g, label) ==
    LET d == Draw(g, label)
    IN  [v |-> d.k * 100 < p * RngMod, g |-> d.g]

\* ------------------------------------------------------ helper functions
choose_quality(g, label) ==
    choices(quality_tier_names, quality_weights, g, label)

choose_flooring_type(room_type, g) ==
    IF room_type \in {"Kitchen", "Bathroom"}
    THEN choices(<<"Ceramic_Tile", "Vitrified_Tile", "Granite">>,
                 <<45, 40, 15>>, g, <<"flooring", "type">>)
    ELSE choices(flooring_names, <<25, 35, 10, 8, 10, 7, 5>>,
                 g, <<"flooring", "type">>)

choose_ceiling_type(g) == choice(ceiling_names, g, <<"ceiling", "type">>)

choose_furniture_level(room_type, g) ==
    IF room_type \in {"Kitchen", "Bathroom"}
    THEN [v |-> "None", g |-> g]
    ELSE choices(<<"None", "Basic", "Standard", "Premium">>,
                 <<35, 35, 22, 8>>, g, <<"furniture", "level">>)

kitchen_package_by_level(renov_level, g) ==
    IF renov_level = "Basic" THEN [v |-> "Basic_L", g |-> g]
    ELSE IF renov_level = "Mid"
    THEN choice(<<"Basic_L", "Standard_L">>, g, <<"kitchen", "tier">>)
    ELSE choice(<<"Standard_L", "Premium_U", "Luxury_Island">>,
                g, <<"kitchen", "tier">>)

bathroom_package_by_level(renov_level, g) ==
    IF renov_level = "Basic" THEN [v |-> "Basic", g |-> g]
    ELSE IF renov_level = "Mid"
    THEN choice(<<"Basic", "Standard">>, g, <<"bathroom", "tier">>)
    ELSE choice(<<"Standard", "Premium">>, g, <<"bathroom", "tier">>)

\* base * quality_factor * city_mult * MATERIAL_PRICE_INDEX, base_rng in rupees
psf_cost(base_rng, quality_factor, city_mult, g, label) ==
    LET base == rand_range(Rs(base_rng[1]), Rs(base_rng[2]), g, label)
    IN  [v |-> FMul(FMul(FMul(base.v, quality_factor), city_mult),
                    MATERIAL_PRICE_INDEX),
         g |-> base.g]

unit_cost(base_rng, quality_factor, city_mult, g, label) ==
    LET base == rand_range(Rs(base_rng[1]), Rs(base_rng[2]), g, label)
    IN  [v |-> FMul(FMul(FMul(base.v, quality_factor), city_mult),
                    MATERIAL_PRICE_INDEX),
         g |-> base.g]

\* x / y for x, y on one grid, as a value on the FracScale grid
FDiv(x, y) == RoundHalfEven(x * FracScale, y)

\* labor_component_cost drawing the productivity before the day rate
labor_component_cost_swapped(area_sqft, city_info, category, g) ==
    LET sqft_per_day ==
            IF category \in DOMAIN productivity
            THEN rand_range(Rs(productivity[category][1]),
                            Rs(productivity[category][2]),
                            g, <<category, "productivity">>)
            ELSE [v |-> Rs(150), g |-> g]
        day_rate == rand_range(Rs(city_info.labor_day_rate[1]),
                               Rs(city_info.labor_day_rate[2]),
                               sqft_per_day.g, <<category, "day_rate">>)
        days == Max(FracScale, FDiv(Rs(area_sqft), sqft_per_day.v))
    IN  [v |-> FMul(day_rate.v, days), g |-> day_rate.g]

\* day_rate * max(1.0, area_sqft / sqft_per_day)
labor_component_cost(area_sqft, city_info, category, g) ==
    LET day_rate == rand_range(Rs(city_info.labor_day_rate[1]),
                               Rs(city_info.labor_day_rate[2]),
                               g, <<category, "day_rate">>)
        sqft_per_day ==
            IF category \in DOMAIN productivity
            THEN rand_range(Rs(productivity[category][1]),
                            Rs(productivity[category][2]),
                            day_rate.g, <<category, "productivity">>)
            ELSE [v |-> Rs(150), g |-> day_rate.g]
        days == Max(FracScale, FDiv(Rs(area_sqft), sqft_per_day.v))
    IN  [v |-> FMul(day_rate.v, days), g |-> sqft_per_day.g]


\* ------------------------------------------------------------ generate_row
\* round(x, 3) of a fraction, round(x) of a money value, round(x, 2) of total_psf
Round3(x) == RoundHalfEven(x, FracScale \div 1000) * (FracScale \div 1000)
RoundRupee(x) == RoundHalfEven(x, Hundredths)
Round2(x) == RoundHalfEven(x, Hundredths)

\* area = int(rand_range(70, 550))
DrawArea(g) ==
    LET d == rand_range(70 * AreaUnit, 550 * AreaUnit, g, <<"area", "area">>)
    IN  [v |-> IntTrunc(d.v, AreaUnit), g |-> d.g]

\* HasCeiling without the room test
HasCeilingAnyRoom(room_type, g) == Bernoulli(65, g, <<"ceiling", "apply">>)

\* has_ceiling = (room_type != "Bathroom") and (random.random() < 0.65)
HasCeiling(room_type, g) ==
    IF room_type # "Bathroom"
    THEN Bernoulli(65, g, <<"ceiling", "apply">>)
    ELSE [v |-> FALSE, g |-> g]

\* has_electrical = random.random() < {"Basic":0.4, "Mid":0.65, "Luxury":0.9}[renov_level]
HasElectrical(renov_level, g) ==
    Bernoulli(CASE renov_level = "Basic" -> 40
                [] renov_level = "Mid" -> 65
                [] renov_level = "Luxury" -> 90,
              g, <<"electrical", "apply">>)

\* KitchenPackage with the room test widened to the dining room
KitchenPackageDining(room_type, renov_level, city_mult, g) ==
    IF room_type \in {"Kitchen", "Dining"}
    THEN LET kname == kitchen_package_by_level(renov_level, g)
             q == choose_quality(kname.g, <<"kitchen", "quality">>)
             kcost == unit_cost(kitchen_packages[kname.v], quality_tiers[q.v],
                                city_mult, q.g, <<"kitchen", "unit_cost">>)
         IN  [name |-> kname.v, cost |-> kcost.v, g |-> kcost.g]
    ELSE [name |-> "None", cost |-> 0, g |-> g]

\* the kitchen package block: name and cost
KitchenPackage(room_type, renov_level, city_mult, g) ==
    IF room_type = "Kitchen"
    THEN LET kname == kitchen_package_by_level(renov_level, g)
             q == choose_quality(kname.g, <<"kitchen", "quality">>)
             kcost == unit_cost(kitchen_packages[kname.v], quality_tiers[q.v],
                                city_mult, q.g, <<"kitchen", "unit_cost">>)
         IN  [name |-> kname.v, cost |-> kcost.v, g |-> kcost.g]
    ELSE [name |-> "None", cost |-> 0, g |-> g]

\* the bathroom package block: name and cost
BathroomPackage(room_type, renov_level, city_mult, g) ==
    IF room_type = "Bathroom"
    THEN LET bname == bathroom_package_by_level(renov_level, g)
             q == choose_quality(bname.g, <<"bathroom", "quality">>)
             bcost == unit_cost(bathroom_packages[bname.v], quality_tiers[q.v],
                                city_mult, q.g, <<"bathroom", "unit_cost">>)
         IN  [name |-> bname.v, cost |-> bcost.v, g |-> bcost.g]
    ELSE [name |-> "None", cost |-> 0, g |-> g]

\* PlumbingCost with the bathroom contribution subtracted (-= for +=)
PlumbingCostSubtract(room_type, city_mult, g) ==
    LET k == IF room_type = "Kitchen"
             THEN unit_cost(plumbing_per_kitchen, Dec(100, 100), city_mult,
                            g, <<"plumbing", "kitchen">>)
             ELSE [v |-> 0, g |-> g]
        b == IF room_type = "Bathroom"
             THEN unit_cost(plumbing_per_bath, Dec(100, 100), city_mult,
                            k.g, <<"plumbing", "bath">>)
             ELSE [v |-> 0, g |-> k.g]
    IN  [v |-> k.v - b.v, g |-> b.g]

\* plumbing add-ons for Kitchen / Bathroom
PlumbingCost(room_type, city_mult, g) ==
    LET k == IF room_type = "Kitchen"
             THEN unit_cost(plumbing_per_kitchen, Dec(100, 100), city_mult,
                            g, <<"plumbing", "kitchen">>)
             ELSE [v |-> 0, g |-> g]
        b == IF room_type = "Bathroom"
             THEN unit_cost(plumbing_per_bath, Dec(100, 100), city_mult,
                            k.g, <<"plumbing", "bath">>)
             ELSE [v |-> 0, g |-> k.g]
    IN  [v |-> k.v + b.v, g |-> b.g]

\* MaterialSubtotal with the furniture cost left out of the sum
MaterialSubtotalNoFurniture(pnt, flr, clg, elc, kit, bth, plm, frn) ==
    pnt + flr + clg + elc + kit + bth + plm

\* the sum of the eight material-side costs
MaterialSubtotal(pnt, flr, clg, elc, kit, bth, plm, frn) ==
    pnt + flr + clg + elc + kit + bth + plm + frn

LaborSubtotal(painting, flooring, ceiling, electrical) ==
    painting + flooring + ceiling + electrical

WastageCost(material_subtotal, wastage_pct) ==
    FMul(material_subtotal, wastage_pct)

ContractorOverhead(material_subtotal, labor_subtotal, labor_overhead_pct) ==
    FMul(material_subtotal + labor_subtotal, labor_overhead_pct)

SubtotalPreTax(material_subtotal, wastage_cost, labor_subtotal, overhead) ==
    material_subtotal + wastage_cost + labor_subtotal + overhead

GstAmount(subtotal_pre_tax, include_gst) ==
    IF include_gst THEN FMul(subtotal_pre_tax, GST_RATE) ELSE 0

GrandTotal(subtotal_pre_tax, gst_amount) == subtotal_pre_tax + gst_amount

\* TotalPsf computed from the rounded grand total
TotalPsfOfRounded(grand_total, area) ==
    MulDiv(Rs(RoundRupee(grand_total)), Hundredths, Max(1, area))

\* total_psf = grand_total / max(1, area), on the grid 1/(Hundredths^2)
TotalPsf(grand_total, area) == MulDiv(grand_total, Hundredths, Max(1, area))

\* AsOfDate taken from the calendar (date.today()) instead of the constant
AsOfDateToday(t) == t

\* the "As_Of_Date" stamp of a row written on calendar day t
AsOfDate(t) == AS_OF_DATE


\* The local variables of one call are kept in a record st; st.g is the shared
\* generator with the log of the draws of this call.  Each block of
\* generate_row is one operator from the locals before it to the locals after.

\* city = random.choice(city_names) and the values read from cities[city]
SelectCity(st) ==
    LET d == choice(city_names, st.g, <<"city", "city">>)
    IN  [city |-> d.v, cinfo |-> cities[d.v], tier |-> cities[d.v].tier,
         city_mult |-> cities[d.v].multiplier, g |-> d.g] @@ st

SelectRoom(st) ==
    LET d == choice(room_types, st.g, <<"room_type", "room_type">>)
    IN  [room_type |-> d.v, g |-> d.g] @@ st

SelectArea(st) ==
    LET d == DrawArea(st.g)
    IN  [area |-> d.v, g |-> d.g] @@ st

\* renov_level and labor_overhead_pct = round(rand_range(...), 3)
SelectLevel(st) ==
    LET l == choice(renovation_level_names, st.g,
                    <<"renov_level", "renov_level">>)
        o == rand_range(renovation_levels[l.v][1], renovation_levels[l.v][2],
                        l.g, <<"labor_overhead", "labor_overhead">>)
    IN  [renov_level |-> l.v, labor_overhead_pct |-> Round3(o.v), g |-> o.g]
        @@ st

SelectQualities(st) ==
    LET p == choose_quality(st.g, <<"quality", "painting">>)
        f == choose_quality(p.g, <<"quality", "flooring">>)
        c == choose_quality(f.g, <<"quality", "ceiling">>)
    IN  [paint_quality |-> p.v, floor_quality |-> f.v,
         ceiling_quality |-> c.v, g |-> c.g] @@ st

Painting(st) ==
    LET rate == psf_cost(painting_psf, quality_tiers[st.paint_quality],
                         st.city_mult, st.g, <<"painting", "base_rate">>)
        labor == labor_component_cost(st.area, st.cinfo, "painting", rate.g)
    IN  [painting_material_cost |-> rate.v * st.area,
         painting_labor_cost |-> labor.v, g |-> labor.g] @@ st

Flooring(st) ==
    LET ft == choose_flooring_type(st.room_type, st.g)
        rate == psf_cost(flooring_catalog[ft.v], quality_tiers[st.floor_quality],
                         st.city_mult, ft.g, <<"flooring", "base_rate">>)
        labor == labor_component_cost(st.area, st.cinfo, "flooring", rate.g)
    IN  [floor_type |-> ft.v, flooring_material_cost |-> rate.v * st.area,
         flooring_labor_cost |-> labor.v, g |-> labor.g] @@ st

\* the false-ceiling block when has_ceiling is true; g is the generator after
\* the test
CeilingApplied(st, g) ==
    LET ct == choose_ceiling_type(g)
        frac == rand_range(Dec(80, 100), Dec(105, 100), ct.g,
                           <<"ceiling", "area_fraction">>)
        rate == psf_cost(ceiling_catalog[ct.v],
                         quality_tiers[st.ceiling_quality], st.city_mult,
                         frac.g, <<"ceiling", "base_rate">>)
        labor == labor_component_cost(IntTrunc(st.area * frac.v, FracScale),
                                      st.cinfo, "ceiling", rate.g)
    IN  [has_ceiling |-> TRUE, ceiling_type |-> ct.v,
         ceiling_area |-> IntTrunc(st.area * frac.v, FracScale),
         ceiling_material_cost |->
             rate.v * IntTrunc(st.area * frac.v, FracScale),
         ceiling_labor_cost |-> labor.v, g |-> labor.g] @@ st

Ceiling(st) ==
    LET hc == HasCeiling(st.room_type, st.g)
    IN  IF hc.v THEN CeilingApplied(st, hc.g)
        ELSE [has_ceiling |-> FALSE, ceiling_type |-> "None",
              ceiling_area |-> 0, ceiling_material_cost |-> 0,
              ceiling_labor_cost |-> 0, g |-> hc.g] @@ st

\* the electrical block when has_electrical is true
ElectricalApplied(st, g) ==
    LET rate == psf_cost(electrical_psf, Dec(100, 100), st.city_mult, g,
                         <<"electrical", "rate">>)
        labor == labor_component_cost(st.area, st.cinfo, "electrical", rate.g)
    IN  [has_electrical |-> TRUE,
         electrical_material_cost |-> rate.v * st.area,
         electrical_labor_cost |-> labor.v, g |-> labor.g] @@ st

Electrical(st) ==
    LET he == HasElectrical(st.renov_level, st.g)
    IN  IF he.v THEN ElectricalApplied(st, he.g)
        ELSE [has_electrical |-> FALSE, electrical_material_cost |-> 0,
              electrical_labor_cost |-> 0, g |-> he.g] @@ st

Kitchen(st) ==
    LET k == KitchenPackage(st.room_type, st.renov_level, st.city_mult, st.g)
    IN  [kitchen_pkg_name |-> k.name, kitchen_pkg_cost |-> k.cost, g |-> k.g]
        @@ st

Bathroom(st) ==
    LET b == BathroomPackage(st.room_type, st.renov_level, st.city_mult, st.g)
    IN  [bath_pkg_name |-> b.name, bath_pkg_cost |-> b.cost, g |-> b.g] @@ st

Plumbing(st) ==
    LET p == PlumbingCost(st.room_type, st.city_mult, st.g)
    IN  [plumbing_cost |-> p.v, g |-> p.g] @@ st

Furniture(st) ==
    LET fl == choose_furniture_level(st.room_type, st.g)
    IN  IF fl.v # "None"
        THEN LET c == unit_cost(furniture_room[fl.v], Dec(100, 100),
                                st.city_mult, fl.g, <<"furniture", "unit_cost">>)
             IN  [furniture_level |-> fl.v, furniture_cost |-> c.v, g |-> c.g]
                 @@ st
        ELSE [furniture_level |-> fl.v, furniture_cost |-> 0, g |-> fl.g] @@ st

\* material subtotal and the wastage draw
Wastage(st) ==
    LET w == rand_range(Dec(5, 100), Dec(10, 100), st.g,
                        <<"wastage", "wastage">>)
    IN  [material_subtotal |->
             MaterialSubtotal(st.painting_material_cost,
                              st.flooring_material_cost,
                              st.ceiling_material_cost,
                              st.electrical_material_cost, st.kitchen_pkg_cost,
                              st.bath_pkg_cost, st.plumbing_cost,
                              st.furniture_cost),
         labor_subtotal |->
             LaborSubtotal(st.painting_labor_cost, st.flooring_labor_cost,
                           st.ceiling_labor_cost, st.electrical_labor_cost),
         wastage_pct |-> w.v, g |-> w.g] @@ st

\* wastage cost, contractor overhead and the pre-tax subtotal
PreTax(st) ==
    LET wc == WastageCost(st.material_subtotal, st.wastage_pct)
        co == ContractorOverhead(st.material_subtotal, st.labor_subtotal,
                                 st.labor_overhead_pct)
    IN  [wastage_cost |-> wc, contractor_overhead |-> co,
         subtotal_pre_tax |->
             SubtotalPreTax(st.material_subtotal, wc, st.labor_subtotal, co)]
        @@ st

\* GST, grand total and the per-sq.ft metric
Totals(st) ==
    LET gst == GstAmount(st.subtotal_pre_tax, INCLUDE_GST)
    IN  [gst_amount |-> gst,
         grand_total |-> GrandTotal(st.subtotal_pre_tax, gst),
         total_psf |-> TotalPsf(GrandTotal(st.subtotal_pre_tax, gst), st.area)]
        @@ st

\* the locals at the return statement of a call entered with generator state s
Locals(s) ==
    Totals(PreTax(Wastage(Furniture(Plumbing(Bathroom(Kitchen(Electrical(
      Ceiling(Flooring(Painting(SelectQualities(SelectLevel(SelectArea(
        SelectRoom(SelectCity([g |-> [s |-> s, log |-> << >>]]))))))))))))))))

\* the returned dict; costs rounded to the nearest rupee
ReturnedRow(idx, st, t) ==
    [Row_ID |-> idx,
     As_Of_Date |-> AsOfDate(t),
     Material_Price_Index |-> MATERIAL_PRICE_INDEX,
     City |-> st.city,
     City_Tier |-> st.tier,
     City_Multiplier |-> st.city_mult,
     Labor_Day_Rate_Min |-> cities[st.city].labor_day_rate[1],
     Labor_Day_Rate_Max |-> cities[st.city].labor_day_rate[2],
     Room_Type |-> st.room_type,
     Area_Sqft |-> st.area,
     Renovation_Level |-> st.renov_level,
     Paint_Quality |-> st.paint_quality,
     Floor_Type |-> st.floor_type,
     Floor_Quality |-> st.floor_quality,
     Ceiling_Type |-> st.ceiling_type,
     Ceiling_Quality |-> IF st.has_ceiling THEN st.ceiling_quality ELSE "None",
     Has_Electrical |-> st.has_electrical,
     Furniture_Level |-> st.furniture_level,
     Kitchen_Package |-> st.kitchen_pkg_name,
     Bathroom_Package |-> st.bath_pkg_name,
     Painting_Material_Cost |-> RoundRupee(st.painting_material_cost),
     Painting_Labor_Cost |-> RoundRupee(st.painting_labor_cost),
     Flooring_Material_Cost |-> RoundRupee(st.flooring_material_cost),
     Flooring_Labor_Cost |-> RoundRupee(st.flooring_labor_cost),
     Ceiling_Material_Cost |-> RoundRupee(st.ceiling_material_cost),
     Ceiling_Labor_Cost |-> RoundRupee(st.ceiling_labor_cost),
     Electrical_Material_Cost |-> RoundRupee(st.electrical_material_cost),
     Electrical_Labor_Cost |-> RoundRupee(st.electrical_labor_cost),
     Kitchen_Package_Cost |-> RoundRupee(st.kitchen_pkg_cost),
     Bathroom_Package_Cost |-> RoundRupee(st.bath_pkg_cost),
     Plumbing_Cost |-> RoundRupee(st.plumbing_cost),
     Furniture_Cost |-> RoundRupee(st.furniture_cost),
     Wastage_Sundries_Cost |-> RoundRupee(st.wastage_cost),
     Contractor_Overhead_Cost |-> RoundRupee(st.contractor_overhead),
     GST_Amount |-> RoundRupee(st.gst_amount),
     Grand_Total |-> RoundRupee(st.grand_total),
     Total_Cost_per_Sqft |-> Round2(st.total_psf)]

\* one call generate_row(idx) on calendar day t with locals st at the return:
\* the returned record, the locals, and the generator afterwards
generate_row(idx, st, t) ==
    [row |-> ReturnedRow(idx, st, t), frame |-> st, g |-> st.g]

\* ------------------------------------------------------------- assembler
\* RowRange counting from zero: range(n)
RowRangeFromZero(n) == [k \in 1..n |-> k - 1]

\* range(1, n + 1)
RowRange(n) == [k \in 1..n |-> k]

Init ==
    /\ seed \in 0..MaxSeed
    /\ N_ROWS \in 1..MaxRows
    /\ INCLUDE_GST \in BOOLEAN
    /\ painting_psf = StaticPaintingPsf
    /\ quality_weights = StaticQualityWeights
    /\ today = 1
    /\ rng = SeedRng(seed)
    /\ rows = << >>
    /\ frame = << >>
    /\ draws = << >>
    /\ pc = "gen"
    /\ csv = << >>
    /\ run = 1
    /\ first_csv = << >>

\* one iteration of rows = [generate_row(i) for i in range(1, N_ROWS + 1)]
GenerateRow ==
    /\ pc = "gen"
    /\ Len(rows) < Len(RowRange(N_ROWS))
    /\ WeightsTotal(quality_weights) > 0
    /\ \E r \in {generate_row(RowRange(N_ROWS)[Len(rows) + 1], Locals(rng),
                               today)} :
           /\ rows' = Append(rows, r.row)
           /\ frame' = r.frame
           /\ draws' = r.g.log
           /\ rng' = r.g.s
    /\ UNCHANGED << config, today, pc, csv, run, first_csv >>

\* random.choices raises ValueError when the total of the weights is not
\* positive; the exception leaves the comprehension and ends the script
RaiseValueError ==
    /\ pc = "gen"
    /\ Len(rows) < Len(RowRange(N_ROWS))
    /\ WeightsTotal(quality_weights) <= 0
    /\ pc' = "raised"
    /\ rows' = << >>
    /\ UNCHANGED << config, today, rng, frame, draws, csv, run, first_csv >>

\* df = pd.DataFrame(rows); df.to_csv(csv_path, index=False)
WriteCsv ==
    /\ pc = "gen"
    /\ Len(rows) = Len(RowRange(N_ROWS))
    /\ csv' = rows
    /\ pc' = "done"
    /\ UNCHANGED << config, today, rng, rows, frame, draws, run, first_csv >>

\* the script is executed a second time, the same day or later: the module
\* level statements run again, random.seed first
Rerun ==
    /\ pc = "done"
    /\ run = 1
    /\ run' = 2
    /\ first_csv' = csv
    /\ today' \in {today, today + 1}
    /\ rng' = SeedRng(seed)
    /\ rows' = << >>
    /\ frame' = << >>
    /\ draws' = << >>
    /\ csv' = << >>
    /\ pc' = "gen"
    /\ UNCHANGED config

Next == GenerateRow \/ WriteCsv

Spec == Init /\ [][Next]_vars

NextTwice == GenerateRow \/ WriteCsv \/ Rerun

\* the script as committed (INCLUDE_GST = True), executed twice
InitTwice == Init /\ INCLUDE_GST

SpecTwice == InitTwice /\ [][NextTwice]_vars

\* the configuration surface opened: N_ROWS, a price range and a weight table
\* may be set to any value, well-formed or not
InitCfg ==
    /\ seed \in 0..MaxSeed
    /\ N_ROWS \in 0..MaxRows
    /\ INCLUDE_GST = TRUE
    /\ painting_psf \in {StaticPaintingPsf, <<35, 18>>, <<-18, 35>>}
    /\ quality_weights \in {StaticQualityWeights, <<0, 0, 0, 0>>}
    /\ today = 1
    /\ rng = SeedRng(seed)
    /\ rows = << >>
    /\ frame = << >>
    /\ draws = << >>
    /\ pc = "gen"
    /\ csv = << >>
    /\ run = 1
    /\ first_csv = << >>

NextCfg == GenerateRow \/ WriteCsv \/ RaiseValueError

SpecCfg == InitCfg /\ [][NextCfg]_vars


\* ------------------------------------------------------------ properties
LastRow == rows[Len(rows)]

\* C1: the emitted Grand_Total of a generated row equals round(material_subtotal
\* + wastage_cost + labor_subtotal + contractor_overhead + gst_amount), with
\* material_subtotal the sum of the eight unrounded material-side costs,
\* labor_subtotal the sum of the four unrounded labor costs, wastage_cost =
\* material_subtotal x wastage fraction, contractor_overhead = (material_subtotal
\* + labor_subtotal) x labor-overhead fraction and gst_amount = subtotal_pre_tax
\* x GST_RATE when INCLUDE_GST is on, 0 otherwise.
C1_GrandTotalIsRoundedSum ==
    rows # << >> =>
      LET f == frame
          ms == f.painting_material_cost + f.flooring_material_cost
                + f.ceiling_material_cost + f.electrical_material_cost
                + f.kitchen_pkg_cost + f.bath_pkg_cost + f.plumbing_cost
                + f.furniture_cost
          ls == f.painting_labor_cost + f.flooring_labor_cost
                + f.ceiling_labor_cost + f.electrical_labor_cost
          wc == FMul(ms, f.wastage_pct)
          co == FMul(ms + ls, f.labor_overhead_pct)
          sub == ms + wc + ls + co
          gst == IF INCLUDE_GST THEN FMul(sub, GST_RATE) ELSE 0
      IN  LastRow.Grand_Total = RoundHalfEven(ms + wc + ls + co + gst, Hundredths)

\* a row with tax, a false ceiling and furniture has been generated
C1_Witness ==
    /\ rows # << >>
    /\ INCLUDE_GST
    /\ LastRow.GST_Amount > 0
    /\ frame.has_ceiling
    /\ frame.furniture_cost > 0

\* C2 as stated: Total_Cost_per_Sqft equals round(Grand_Total / Area_Sqft, 2)
\* with Grand_Total and Area_Sqft the values emitted in the same row.
C2_PsfOfEmittedTotal ==
    \A i \in 1..Len(rows) :
      rows[i].Total_Cost_per_Sqft =
        RoundHalfEven(MulDiv(Rs(rows[i].Grand_Total), Hundredths,
                             rows[i].Area_Sqft), Hundredths)

\* C2 amended: Total_Cost_per_Sqft equals round(grand_total / Area_Sqft, 2)
\* with grand_total the unrounded grand total of the row (subtotal_pre_tax +
\* gst_amount) and Area_Sqft the emitted area.
C2_PsfOfUnroundedTotal ==
    rows # << >> =>
      LastRow.Total_Cost_per_Sqft =
        RoundHalfEven(MulDiv(frame.grand_total, Hundredths, LastRow.Area_Sqft),
                      Hundredths)

\* a row whose unrounded total is not a whole number of rupees and whose
\* per-sq.ft figure is not the one the emitted total gives
C2_Witness ==
    /\ rows # << >>
    /\ frame.grand_total # Rs(LastRow.Grand_Total)
    /\ LastRow.Area_Sqft >= 1
    /\ LastRow.Total_Cost_per_Sqft #
         RoundHalfEven(MulDiv(Rs(LastRow.Grand_Total), Hundredths,
                              LastRow.Area_Sqft), Hundredths)

\* C3: two complete runs with the same seed and the same N produce identical
\* ordered sequences of rows: row i of the second run equals row i of the
\* first run field by field.
C3_SameSeedSameRows ==
    run = 2 =>
      /\ Len(rows) <= Len(first_csv)
      /\ \A i \in 1..Len(rows) : rows[i] = first_csv[i]
      /\ pc = "done" => csv = first_csv

\* the second run has finished, on a later day, with more than one row
C3_Witness ==
    /\ run = 2
    /\ pc = "done"
    /\ today = 2
    /\ Len(csv) >= 2
    /\ Len(first_csv) = N_ROWS

\* C4: after the assembler finishes the dataset has exactly N records, the
\* k-th record has Row_ID = k, and records appear in generation order.
C4_RowIds ==
    /\ \A k \in 1..Len(rows) : rows[k].Row_ID = k
    /\ pc = "done" =>
         /\ Len(csv) = N_ROWS
         /\ \A k \in 1..N_ROWS : csv[k].Row_ID = k
         /\ csv = rows

\* the assembler has finished a dataset of more than one row
C4_Witness ==
    /\ pc = "done"
    /\ N_ROWS >= 2
    /\ Len(csv) = N_ROWS

\* a weight table with no positive entry, a range with min > max or a negative
\* bound, or N that is not a positive integer
Malformed ==
    \/ N_ROWS < 1
    \/ \A i \in 1..Len(quality_weights) : quality_weights[i] <= 0
    \/ painting_psf[1] > painting_psf[2]
    \/ painting_psf[1] < 0
    \/ painting_psf[2] < 0

\* C5: a malformed configuration fails the whole run with a configuration
\* error and never yields any row.
C5_MalformedConfigFails ==
    Malformed => (rows = << >> /\ csv = << >> /\ pc # "done")

\* C6: a row whose Room_Type is not "Kitchen" has Kitchen_Package "None" and
\* Kitchen_Package_Cost 0; a row whose Room_Type is not "Bathroom" has
\* Bathroom_Package "None" and Bathroom_Package_Cost 0.
C6_PackagesOnlyForTheirRoom ==
    \A i \in 1..Len(rows) :
      /\ rows[i].Room_Type # "Kitchen" =>
           (rows[i].Kitchen_Package = "None" /\ rows[i].Kitchen_Package_Cost = 0)
      /\ rows[i].Room_Type # "Bathroom" =>
           (rows[i].Bathroom_Package = "None"
            /\ rows[i].Bathroom_Package_Cost = 0)

\* a dining-room row (neither package) and a bathroom row with its package
C6_Witness ==
    /\ \E i \in 1..Len(rows) : rows[i].Room_Type = "Dining"
    /\ \E i \in 1..Len(rows) :
         rows[i].Room_Type = "Bathroom" /\ rows[i].Bathroom_Package_Cost > 0

\* C7: a Bathroom row never has the false ceiling applied: both ceiling costs
\* are 0 and Ceiling_Type and Ceiling_Quality are "None".
C7_NoCeilingInBathroom ==
    \A i \in 1..Len(rows) :
      rows[i].Room_Type = "Bathroom" =>
        /\ rows[i].Ceiling_Material_Cost = 0
        /\ rows[i].Ceiling_Labor_Cost = 0
        /\ rows[i].Ceiling_Type = "None"
        /\ rows[i].Ceiling_Quality = "None"

\* a bathroom row for which a ceiling quality tier had been drawn
C7_Witness ==
    /\ rows # << >>
    /\ LastRow.Room_Type = "Bathroom"
    /\ frame.ceiling_quality # "None"
    /\ <<"quality", "ceiling">> \in {draws[j] : j \in 1..Len(draws)}

\* C8: Area_Sqft of every row is an integer with 70 <= Area_Sqft < 550, for
\* every value rand_range(70, 550) can return.
C8_AreaHalfOpen ==
    \A i \in 1..Len(rows) :
      /\ rows[i].Area_Sqft \in Int
      /\ 70 <= rows[i].Area_Sqft
      /\ rows[i].Area_Sqft < 550

CostFields ==
    { "Painting_Material_Cost", "Painting_Labor_Cost",
      "Flooring_Material_Cost", "Flooring_Labor_Cost",
      "Ceiling_Material_Cost", "Ceiling_Labor_Cost",
      "Electrical_Material_Cost", "Electrical_Labor_Cost",
      "Kitchen_Package_Cost", "Bathroom_Package_Cost", "Plumbing_Cost",
      "Furniture_Cost", "Wastage_Sundries_Cost", "Contractor_Overhead_Cost",
      "GST_Amount", "Grand_Total", "Total_Cost_per_Sqft" }

\* C9: under the static reference tables every emitted cost field of every
\* row is >= 0.
C9_CostsNonNegative ==
    \A i \in 1..Len(rows) : \A c \in CostFields : rows[i][c] >= 0

\* a bathroom row with plumbing and electrical work priced
C9_Witness ==
    \E i \in 1..Len(rows) :
      /\ rows[i].Plumbing_Cost > 0
      /\ rows[i].Room_Type = "Bathroom"
      /\ rows[i].Electrical_Labor_Cost > 0
      /\ rows[i].Wastage_Sundries_Cost > 0

\* the draws of one call in the order of steps 1-19 of the algorithm
StepOrder ==
    << <<"city", "city">>, <<"room_type", "room_type">>, <<"area", "area">>,
       <<"renov_level", "renov_level">>,
       <<"labor_overhead", "labor_overhead">>,
       <<"quality", "painting">>, <<"quality", "flooring">>,
       <<"quality", "ceiling">>,
       <<"painting", "base_rate">>, <<"painting", "day_rate">>,
       <<"painting", "productivity">>,
       <<"flooring", "type">>, <<"flooring", "base_rate">>,
       <<"flooring", "day_rate">>, <<"flooring", "productivity">>,
       <<"ceiling", "apply">>, <<"ceiling", "type">>,
       <<"ceiling", "area_fraction">>, <<"ceiling", "base_rate">>,
       <<"ceiling", "day_rate">>, <<"ceiling", "productivity">>,
       <<"electrical", "apply">>, <<"electrical", "rate">>,
       <<"electrical", "day_rate">>, <<"electrical", "productivity">>,
       <<"kitchen", "tier">>, <<"kitchen", "unit_cost">>,
       <<"kitchen", "quality">>,
       <<"bathroom", "tier">>, <<"bathroom", "unit_cost">>,
       <<"bathroom", "quality">>,
       <<"plumbing", "kitchen">>, <<"plumbing", "bath">>,
       <<"furniture", "level">>, <<"furniture", "unit_cost">>,
       <<"wastage", "wastage">> >>

\* StepOrder with the quality draw of a package before its unit-cost draw
StepOrderQualityFirst ==
    [i \in 1..Len(StepOrder) |->
       CASE StepOrder[i] = <<"kitchen", "unit_cost">> -> <<"kitchen", "quality">>
         [] StepOrder[i] = <<"kitchen", "quality">> -> <<"kitchen", "unit_cost">>
         [] StepOrder[i] = <<"bathroom", "unit_cost">> ->
              <<"bathroom", "quality">>
         [] StepOrder[i] = <<"bathroom", "quality">> ->
              <<"bathroom", "unit_cost">>
         [] OTHER -> StepOrder[i]]

\* every draw of the log is one of order, and the log follows order strictly
Rank(order, label) == CHOOSE i \in 1..Len(order) : order[i] = label

FollowsOrder(log, order) ==
    /\ \A j \in 1..Len(log) : \E i \in 1..Len(order) : order[i] = log[j]
    /\ \A j \in 1..(Len(log) - 1) :
         Rank(order, log[j]) < Rank(order, log[j + 1])

\* C10 as stated: within a call the draws are consumed in the order of steps
\* 1-19, the package steps drawing tier, unit cost, quality in that order.
C10_DrawsInStepOrder == FollowsOrder(draws, StepOrder)

\* C10 amended: the same order, except that the kitchen and the bathroom
\* package steps draw tier, quality, unit cost in that order.
C10_DrawsInCodeOrder == FollowsOrder(draws, StepOrderQualityFirst)

\* a kitchen row of a Luxury renovation: tier, quality and unit cost all drawn
C10_Witness ==
    /\ rows # << >>
    /\ LastRow.Room_Type = "Kitchen"
    /\ \E j \in 1..(Len(draws) - 2) :
         /\ draws[j] = <<"kitchen", "tier">>
         /\ draws[j + 1] = <<"kitchen", "quality">>
         /\ draws[j + 2] = <<"kitchen", "unit_cost">>

====
